---------------------------- MODULE Spec2Model ----------------------------
(***************************************************************************)
(* terminal_puyo: the board, the falling pair, the lock delay, the chain   *)
(* resolver and the score engine of game.go, driven either directly (the   *)
(* Game methods, as the tests call them) or through the scheduler of       *)
(* ui.go (UI.Run).                                                         *)
(***************************************************************************)
EXTENDS Integers, Sequences, FiniteSets, TLC

(***************************************************************************)
(* Constants of game.go                                                    *)
(***************************************************************************)
Empty == 0
Red == 1
Green == 2
Blue == 3
Yellow == 4
Purple == 5

FieldWidth == 6
FieldHeight == 12
MinChain == 4

StateNormal == "Normal"
StateClearing == "Clearing"
StateDropping == "Dropping"

\* Current == nil
Nil == [nil |-> TRUE]

Position(x, y) == [X |-> x, Y |-> y]

Cols == 0 .. (FieldWidth - 1)
Rows == 0 .. (FieldHeight - 1)

(***************************************************************************)
(* Field                                                                   *)
(***************************************************************************)
NewField == [y \in Rows |-> [x \in Cols |-> Empty]]

\* IsValidPosition without the rows above the screen.
IsValidPositionNoSpawnArea(f, x, y) ==
    IF x < 0 \/ x >= FieldWidth \/ y >= FieldHeight THEN FALSE
    ELSE IF y < 0 THEN FALSE
    ELSE f[y][x] = Empty

IsValidPosition(f, x, y) ==
    IF x < 0 \/ x >= FieldWidth \/ y >= FieldHeight THEN FALSE
    ELSE IF y < 0 THEN TRUE
    ELSE f[y][x] = Empty

\* PlacePuyo that puts a puyo above the screen on the top row.
PlacePuyoOnTopRow(f, x, y, color) ==
    IF x >= 0 /\ x < FieldWidth /\ y < FieldHeight
    THEN [f EXCEPT ![IF y < 0 THEN 0 ELSE y][x] = color]
    ELSE f

PlacePuyo(f, x, y, color) ==
    IF x >= 0 /\ x < FieldWidth /\ y >= 0 /\ y < FieldHeight
    THEN [f EXCEPT ![y][x] = color]
    ELSE f

(***************************************************************************)
(* PuyoPair                                                                *)
(***************************************************************************)
GetSubPosition(p) ==
    CASE p.Rotate = 0 -> Position(p.Pos.X, p.Pos.Y - 1)
      [] p.Rotate = 1 -> Position(p.Pos.X + 1, p.Pos.Y)
      [] p.Rotate = 2 -> Position(p.Pos.X, p.Pos.Y + 1)
      [] p.Rotate = 3 -> Position(p.Pos.X - 1, p.Pos.Y)
      [] OTHER -> Position(p.Pos.X, p.Pos.Y - 1)

(***************************************************************************)
(* The random source: rand.New(rand.NewSource(seed)) is a deterministic    *)
(* stream fixed by its seed.  A seed names one of the Streams below; Intn  *)
(* reads the stream at the generator's position.                           *)
(***************************************************************************)
Streams ==
    << <<0, 0, 1, 1, 4, 2>>,
       <<1, 0, 4, 3, 9, 6>> >>

Seeds == 1 .. Len(Streams)

NewRand(seed) == [seed |-> seed, pos |-> 0]

Intn(r, n) == Streams[r.seed][r.pos + 1] % n

Advance(r) == [r EXCEPT !.pos = (r.pos + 1) % Len(Streams[r.seed])]


(***************************************************************************)
(* Game                                                                    *)
(***************************************************************************)
\* TogglePause that is refused only when the game is over.
TogglePauseDuringChain(g) ==
    IF g.GameOver THEN g
    ELSE [g EXCEPT !.Paused = ~g.Paused]

TogglePause(g) ==
    IF g.State # StateNormal \/ g.GameOver THEN g
    ELSE [g EXCEPT !.Paused = ~g.Paused]

\* generatePuyoPair that draws from five colours whatever ColorCount is.
generatePuyoPairOfFive(g) ==
    LET colors == <<Red, Green, Blue, Yellow, Purple>>
        r1 == Advance(g.rand)
        r2 == Advance(r1)
    IN [pair |-> [Main |-> colors[Intn(g.rand, Len(colors)) + 1],
                  Sub |-> colors[Intn(r1, Len(colors)) + 1],
                  Pos |-> Position(FieldWidth \div 2, 0),
                  Rotate |-> 0],
        rand |-> r2]

\* colors[g.rand.Intn(len(colors))], twice; the result carries the advanced
\* generator.
generatePuyoPair(g) ==
    LET colors == IF g.ColorCount = 4
                  THEN <<Red, Green, Blue, Yellow>>
                  ELSE <<Red, Green, Blue, Yellow, Purple>>
        r1 == Advance(g.rand)
        r2 == Advance(r1)
    IN [pair |-> [Main |-> colors[Intn(g.rand, Len(colors)) + 1],
                  Sub |-> colors[Intn(r1, Len(colors)) + 1],
                  Pos |-> Position(FieldWidth \div 2, 0),
                  Rotate |-> 0],
        rand |-> r2]

\* SpawnNewPair that looks at the sub puyo's cell only.
SpawnNewPairSubOnly(g) ==
    LET gen == generatePuyoPair(g)
        cur == g.Next
        subPos == GetSubPosition(cur)
        blocked == ~IsValidPosition(g.Field, subPos.X, subPos.Y)
    IN [g EXCEPT !.Current = cur,
                 !.Next = gen.pair,
                 !.rand = gen.rand,
                 !.ChainCount = 0,
                 !.GameOver = IF blocked THEN TRUE ELSE g.GameOver]

\* SpawnNewPair without "g.ChainCount = 0".
SpawnNewPairKeepsChainCount(g) ==
    LET gen == generatePuyoPair(g)
        cur == g.Next
        subPos == GetSubPosition(cur)
        blocked == \/ ~IsValidPosition(g.Field, cur.Pos.X, cur.Pos.Y)
                   \/ ~IsValidPosition(g.Field, subPos.X, subPos.Y)
    IN [g EXCEPT !.Current = cur,
                 !.Next = gen.pair,
                 !.rand = gen.rand,
                 !.GameOver = IF blocked THEN TRUE ELSE g.GameOver]

SpawnNewPair(g) ==
    LET gen == generatePuyoPair(g)
        cur == g.Next
        subPos == GetSubPosition(cur)
        blocked == \/ ~IsValidPosition(g.Field, cur.Pos.X, cur.Pos.Y)
                   \/ ~IsValidPosition(g.Field, subPos.X, subPos.Y)
    IN [g EXCEPT !.Current = cur,
                 !.Next = gen.pair,
                 !.rand = gen.rand,
                 !.ChainCount = 0,
                 !.GameOver = IF blocked THEN TRUE ELSE g.GameOver]

\* 500 * time.Millisecond, in nanoseconds
InitialDropSpeed == 500000000

NewGameWithColors(colorCount, seed) ==
    LET cc == IF colorCount # 4 /\ colorCount # 5 THEN 4 ELSE colorCount
        g0 == [Field |-> NewField,
               Current |-> Nil,
               Next |-> Nil,
               Score |-> 0,
               Level |-> 1,
               GameOver |-> FALSE,
               Paused |-> FALSE,
               rand |-> NewRand(seed),
               ChainCount |-> 0,
               TotalChains |-> 0,
               LinesCleared |-> 0,
               DropSpeed |-> InitialDropSpeed,
               State |-> StateNormal,
               CurrentChainNum |-> 0,
               GroundFrames |-> 0,
               MaxGroundFrames |-> 32,
               ColorCount |-> cc]
        gen == generatePuyoPair(g0)
    IN SpawnNewPair([g0 EXCEPT !.Next = gen.pair, !.rand = gen.rand])

\* CanMove without the check of the sub puyo.
CanMoveMainOnly(g, dx, dy, rotate) ==
    IF g.Current = Nil THEN FALSE
    ELSE IsValidPosition(g.Field, g.Current.Pos.X + dx, g.Current.Pos.Y + dy)

CanMove(g, dx, dy, rotate) ==
    IF g.Current = Nil THEN FALSE
    ELSE LET newX == g.Current.Pos.X + dx
             newY == g.Current.Pos.Y + dy
             newRotate == (g.Current.Rotate + rotate + 4) % 4
         IN IF ~IsValidPosition(g.Field, newX, newY) THEN FALSE
            ELSE LET subPos == GetSubPosition([Pos |-> Position(newX, newY),
                                               Rotate |-> newRotate])
                 IN IsValidPosition(g.Field, subPos.X, subPos.Y)

\* Shift with a rotation state that stops at 0 and 3 instead of wrapping.
ShiftNoWrap(g, ddx, ddy, rotate) ==
    [g EXCEPT !.Current.Pos.X = @ + ddx,
              !.Current.Pos.Y = @ + ddy,
              !.Current.Rotate = IF @ + rotate > 3 THEN 3
                                 ELSE IF @ + rotate < 0 THEN 0
                                 ELSE @ + rotate]

\* Shift with "(Rotate + rotate) % 4", Go's remainder, which is negative
\* for a negative sum.
ShiftGoRemainder(g, ddx, ddy, rotate) ==
    [g EXCEPT !.Current.Pos.X = @ + ddx,
              !.Current.Pos.Y = @ + ddy,
              !.Current.Rotate = IF @ + rotate < 0 THEN @ + rotate
                                 ELSE (@ + rotate) % 4]

\* The three assignments every accepting branch of Move makes.
Shift(g, ddx, ddy, rotate) ==
    [g EXCEPT !.Current.Pos.X = @ + ddx,
              !.Current.Pos.Y = @ + ddy,
              !.Current.Rotate = (@ + rotate + 4) % 4]

\* Move with the right kick tried before the left kick.
MoveRightKickFirst(g, dx, dy, rotate) ==
    IF CanMove(g, dx, dy, rotate)
    THEN [g |-> LET m == Shift(g, dx, dy, rotate)
                IN IF dx # 0 \/ rotate # 0
                   THEN [m EXCEPT !.GroundFrames = 0]
                   ELSE m,
          ok |-> TRUE]
    ELSE IF rotate # 0 /\ CanMove(g, dx + 1, dy, rotate)
    THEN [g |-> [Shift(g, dx + 1, dy, rotate) EXCEPT !.GroundFrames = 0],
          ok |-> TRUE]
    ELSE IF rotate # 0 /\ CanMove(g, dx - 1, dy, rotate)
    THEN [g |-> [Shift(g, dx - 1, dy, rotate) EXCEPT !.GroundFrames = 0],
          ok |-> TRUE]
    ELSE IF rotate # 0 /\ CanMove(g, dx, dy - 1, rotate)
    THEN [g |-> [Shift(g, dx, dy - 1, rotate) EXCEPT !.GroundFrames = 0],
          ok |-> TRUE]
    ELSE [g |-> g, ok |-> FALSE]

\* Move with kicks that leave the ground timer running.
MoveKickKeepsTimer(g, dx, dy, rotate) ==
    IF CanMove(g, dx, dy, rotate)
    THEN [g |-> LET m == Shift(g, dx, dy, rotate)
                IN IF dx # 0 \/ rotate # 0
                   THEN [m EXCEPT !.GroundFrames = 0]
                   ELSE m,
          ok |-> TRUE]
    ELSE IF rotate # 0 /\ CanMove(g, dx - 1, dy, rotate)
    THEN [g |-> Shift(g, dx - 1, dy, rotate), ok |-> TRUE]
    ELSE IF rotate # 0 /\ CanMove(g, dx + 1, dy, rotate)
    THEN [g |-> Shift(g, dx + 1, dy, rotate), ok |-> TRUE]
    ELSE IF rotate # 0 /\ CanMove(g, dx, dy - 1, rotate)
    THEN [g |-> Shift(g, dx, dy - 1, rotate), ok |-> TRUE]
    ELSE [g |-> g, ok |-> FALSE]

\* Move returns (the game after the call, the boolean result).
Move(g, dx, dy, rotate) ==
    IF CanMove(g, dx, dy, rotate)
    THEN [g |-> LET m == Shift(g, dx, dy, rotate)
                IN IF dx # 0 \/ rotate # 0
                   THEN [m EXCEPT !.GroundFrames = 0]
                   ELSE m,
          ok |-> TRUE]
    ELSE IF rotate # 0 /\ CanMove(g, dx - 1, dy, rotate)
    THEN [g |-> [Shift(g, dx - 1, dy, rotate) EXCEPT !.GroundFrames = 0],
          ok |-> TRUE]
    ELSE IF rotate # 0 /\ CanMove(g, dx + 1, dy, rotate)
    THEN [g |-> [Shift(g, dx + 1, dy, rotate) EXCEPT !.GroundFrames = 0],
          ok |-> TRUE]
    ELSE IF rotate # 0 /\ CanMove(g, dx, dy - 1, rotate)
    THEN [g |-> [Shift(g, dx, dy - 1, rotate) EXCEPT !.GroundFrames = 0],
          ok |-> TRUE]
    ELSE [g |-> g, ok |-> FALSE]

Drop(g) ==
    LET m == Move(g, 0, 1, 0)
    IN IF m.ok
       THEN [g |-> [m.g EXCEPT !.GroundFrames = 0], ok |-> TRUE]
       ELSE [g |-> m.g, ok |-> FALSE]

\* IsOnGround that knows the floor but not the stacks.
IsOnGroundFloorOnly(g) ==
    IF g.Current = Nil THEN FALSE
    ELSE \/ g.Current.Pos.Y + 1 >= FieldHeight
         \/ GetSubPosition(g.Current).Y + 1 >= FieldHeight

IsOnGround(g) ==
    IF g.Current = Nil THEN FALSE
    ELSE ~CanMove(g, 0, 1, 0)

\* ShouldLock one frame late.
ShouldLockLate(g) == g.GroundFrames > g.MaxGroundFrames

ShouldLock(g) == g.GroundFrames >= g.MaxGroundFrames

RECURSIVE HardDropLoop(_)
HardDropLoop(g) ==
    LET m == Move(g, 0, 1, 0)
    IN IF m.ok THEN HardDropLoop(m.g) ELSE m.g

\* HardDrop that goes down one row only.
HardDropOneRow(g) ==
    [Move(g, 0, 1, 0).g EXCEPT !.GroundFrames = g.MaxGroundFrames]

HardDrop(g) ==
    [HardDropLoop(g) EXCEPT !.GroundFrames = g.MaxGroundFrames]

\* LockPair without "g.GroundFrames = 0".
LockPairKeepsFrames(g) ==
    IF g.Current = Nil THEN g
    ELSE LET subPos == GetSubPosition(g.Current)
             f1 == PlacePuyo(g.Field, g.Current.Pos.X, g.Current.Pos.Y,
                             g.Current.Main)
             f2 == PlacePuyo(f1, subPos.X, subPos.Y, g.Current.Sub)
         IN [g EXCEPT !.Field = f2,
                      !.Current = Nil,
                      !.State = StateDropping,
                      !.ChainCount = 0,
                      !.CurrentChainNum = 0]

\* LockPair without "g.Current = nil".
LockPairKeepsCurrent(g) ==
    IF g.Current = Nil THEN g
    ELSE LET subPos == GetSubPosition(g.Current)
             f1 == PlacePuyo(g.Field, g.Current.Pos.X, g.Current.Pos.Y,
                             g.Current.Main)
             f2 == PlacePuyo(f1, subPos.X, subPos.Y, g.Current.Sub)
         IN [g EXCEPT !.Field = f2,
                      !.GroundFrames = 0,
                      !.State = StateDropping,
                      !.ChainCount = 0,
                      !.CurrentChainNum = 0]

\* LockPair that writes the main colour at both positions.
LockPairSubAsMain(g) ==
    IF g.Current = Nil THEN g
    ELSE LET subPos == GetSubPosition(g.Current)
             f1 == PlacePuyo(g.Field, g.Current.Pos.X, g.Current.Pos.Y,
                             g.Current.Main)
             f2 == PlacePuyo(f1, subPos.X, subPos.Y, g.Current.Main)
         IN [g EXCEPT !.Field = f2,
                      !.Current = Nil,
                      !.GroundFrames = 0,
                      !.State = StateDropping,
                      !.ChainCount = 0,
                      !.CurrentChainNum = 0]

LockPair(g) ==
    IF g.Current = Nil THEN g
    ELSE LET subPos == GetSubPosition(g.Current)
             f1 == PlacePuyo(g.Field, g.Current.Pos.X, g.Current.Pos.Y,
                             g.Current.Main)
             f2 == PlacePuyo(f1, subPos.X, subPos.Y, g.Current.Sub)
         IN [g EXCEPT !.Field = f2,
                      !.Current = Nil,
                      !.GroundFrames = 0,
                      !.State = StateDropping,
                      !.ChainCount = 0,
                      !.CurrentChainNum = 0]

(***************************************************************************)
(* Chain resolver                                                          *)
(***************************************************************************)
\* The inner loop of applyGravity on column x: y runs from the floor to the
\* top, writeY is the next free row.
\* applyGravity's inner loop without "Grid[y][x] = Empty".
RECURSIVE GravityColumnKeepsSource(_, _, _, _)
GravityColumnKeepsSource(f, x, y, writeY) ==
    IF y < 0 THEN f
    ELSE IF f[y][x] # Empty
    THEN LET f1 == IF writeY # y
                   THEN [f EXCEPT ![writeY][x] = f[y][x]]
                   ELSE f
         IN GravityColumnKeepsSource(f1, x, y - 1, writeY - 1)
    ELSE GravityColumnKeepsSource(f, x, y - 1, writeY)

RECURSIVE GravityColumn(_, _, _, _)
GravityColumn(f, x, y, writeY) ==
    IF y < 0 THEN f
    ELSE IF f[y][x] # Empty
    THEN LET f1 == IF writeY # y
                   THEN [f EXCEPT ![writeY][x] = f[y][x], ![y][x] = Empty]
                   ELSE f
         IN GravityColumn(f1, x, y - 1, writeY - 1)
    ELSE GravityColumn(f, x, y - 1, writeY)

RECURSIVE GravityFrom(_, _)
GravityFrom(f, x) ==
    IF x >= FieldWidth THEN f
    ELSE GravityFrom(GravityColumn(f, x, FieldHeight - 1, FieldHeight - 1), x + 1)

\* applyGravity with the column loop started at 1 instead of 0.
applyGravitySkipsFirstColumn(g) == [g EXCEPT !.Field = GravityFrom(g.Field, 1)]

applyGravity(g) == [g EXCEPT !.Field = GravityFrom(g.Field, 0)]

\* The recursive flood fill; visited is the map the calls share.
RECURSIVE findConnectedGroup(_, _, _, _, _)
findConnectedGroup(f, x, y, color, visited) ==
    IF x < 0 \/ x >= FieldWidth \/ y < 0 \/ y >= FieldHeight THEN visited
    ELSE IF f[y][x] # color \/ Position(x, y) \in visited THEN visited
    ELSE LET v0 == visited \cup {Position(x, y)}
             v1 == findConnectedGroup(f, x + 1, y, color, v0)
             v2 == findConnectedGroup(f, x - 1, y, color, v1)
             v3 == findConnectedGroup(f, x, y + 1, color, v2)
         IN findConnectedGroup(f, x, y - 1, color, v3)

\* The row-major scan of hasClearablePuyos from cell number i = y*W + x.
RECURSIVE HasClearableFrom(_, _, _)
HasClearableFrom(f, i, visited) ==
    IF i >= FieldWidth * FieldHeight THEN FALSE
    ELSE LET x == i % FieldWidth
             y == i \div FieldWidth
         IN IF f[y][x] # Empty /\ Position(x, y) \notin visited
            THEN LET group == findConnectedGroup(f, x, y, f[y][x], {})
                 IN IF Cardinality(group) >= MinChain THEN TRUE
                    ELSE HasClearableFrom(f, i + 1, visited \cup group)
            ELSE HasClearableFrom(f, i + 1, visited)

hasClearablePuyos(g) == HasClearableFrom(g.Field, 0, {})

\* The row-major scan of clearPuyos from cell number i; the grid is emptied
\* group by group while the scan goes on.
\* clearPuyos that returns after the first group it clears.
RECURSIVE ClearFromFirstOnly(_, _, _, _)
ClearFromFirstOnly(f, i, visited, cleared) ==
    IF i >= FieldWidth * FieldHeight THEN [Field |-> f, cleared |-> cleared]
    ELSE LET x == i % FieldWidth
             y == i \div FieldWidth
         IN IF f[y][x] # Empty /\ Position(x, y) \notin visited
            THEN LET group == findConnectedGroup(f, x, y, f[y][x], {})
                 IN IF Cardinality(group) >= MinChain
                    THEN [Field |-> [yy \in Rows |-> [xx \in Cols |->
                                       IF Position(xx, yy) \in group
                                       THEN Empty ELSE f[yy][xx]]],
                          cleared |-> TRUE]
                    ELSE ClearFromFirstOnly(f, i + 1, visited \cup group, cleared)
            ELSE ClearFromFirstOnly(f, i + 1, visited, cleared)

\* clearPuyos that asks for more than MinChain cells where
\* hasClearablePuyos asks for MinChain.
RECURSIVE ClearFromMoreThanFour(_, _, _, _)
ClearFromMoreThanFour(f, i, visited, cleared) ==
    IF i >= FieldWidth * FieldHeight THEN [Field |-> f, cleared |-> cleared]
    ELSE LET x == i % FieldWidth
             y == i \div FieldWidth
         IN IF f[y][x] # Empty /\ Position(x, y) \notin visited
            THEN LET group == findConnectedGroup(f, x, y, f[y][x], {})
                 IN IF Cardinality(group) > MinChain
                    THEN ClearFromMoreThanFour(
                             [yy \in Rows |-> [xx \in Cols |->
                                 IF Position(xx, yy) \in group
                                 THEN Empty ELSE f[yy][xx]]],
                             i + 1, visited \cup group, TRUE)
                    ELSE ClearFromMoreThanFour(f, i + 1, visited \cup group,
                                               cleared)
            ELSE ClearFromMoreThanFour(f, i + 1, visited, cleared)

RECURSIVE ClearFrom(_, _, _, _)
ClearFrom(f, i, visited, cleared) ==
    IF i >= FieldWidth * FieldHeight THEN [Field |-> f, cleared |-> cleared]
    ELSE LET x == i % FieldWidth
             y == i \div FieldWidth
         IN IF f[y][x] # Empty /\ Position(x, y) \notin visited
            THEN LET group == findConnectedGroup(f, x, y, f[y][x], {})
                 IN IF Cardinality(group) >= MinChain
                    THEN ClearFrom([yy \in Rows |-> [xx \in Cols |->
                                       IF Position(xx, yy) \in group
                                       THEN Empty ELSE f[yy][xx]]],
                                   i + 1, visited \cup group, TRUE)
                    ELSE ClearFrom(f, i + 1, visited \cup group, cleared)
            ELSE ClearFrom(f, i + 1, visited, cleared)

\* clearPuyos returns (the game after the call, the boolean result).
clearPuyos(g) ==
    LET r == ClearFrom(g.Field, 0, {}, FALSE)
    IN [g |-> [g EXCEPT !.Field = r.Field], ok |-> r.cleared]

(***************************************************************************)
(* Score engine                                                            *)
(***************************************************************************)
\* chainBonus with the loop run once too often ("i <= ChainCount").
RECURSIVE chainBonusOnceMore(_)
chainBonusOnceMore(n) == IF n <= 0 THEN 1 ELSE 2 * chainBonusOnceMore(n - 1)

\* chainBonus after the loop "for i := 1; i < ChainCount; i++"
RECURSIVE chainBonus(_)
chainBonus(n) == IF n <= 1 THEN 1 ELSE 2 * chainBonus(n - 1)

\* time.Duration(float64(500*time.Millisecond) / (1.0 + float64(level)*0.1)),
\* i.e. 5000000000 / (10 + level) nanoseconds cut to an integer, computed
\* in two halves to stay inside 32 bits.
LevelSpeed(level) ==
    (InitialDropSpeed \div (10 + level)) * 10
        + ((InitialDropSpeed % (10 + level)) * 10) \div (10 + level)

\* 100 * time.Millisecond, in nanoseconds
MinDropSpeed == 100000000

\* calculateScore with the level one step behind (no "+ 1").
calculateScoreLevelBehind(g) ==
    IF g.ChainCount > 0
    THEN LET lines == g.LinesCleared + g.ChainCount
             newLevel == lines \div 10
             g1 == [g EXCEPT
                      !.Score = @ + 100 * chainBonus(g.ChainCount) * g.ChainCount,
                      !.LinesCleared = lines]
         IN IF newLevel > g.Level
            THEN [g1 EXCEPT !.Level = newLevel,
                            !.DropSpeed = IF newLevel < 20
                                          THEN LevelSpeed(newLevel)
                                          ELSE MinDropSpeed]
            ELSE g1
    ELSE g

\* calculateScore with the minimum taken one level late ("Level <= 20").
calculateScoreCapLate(g) ==
    IF g.ChainCount > 0
    THEN LET lines == g.LinesCleared + g.ChainCount
             newLevel == (lines \div 10) + 1
             g1 == [g EXCEPT
                      !.Score = @ + 100 * chainBonus(g.ChainCount) * g.ChainCount,
                      !.LinesCleared = lines]
         IN IF newLevel > g.Level
            THEN [g1 EXCEPT !.Level = newLevel,
                            !.DropSpeed = IF newLevel <= 20
                                          THEN LevelSpeed(newLevel)
                                          ELSE MinDropSpeed]
            ELSE g1
    ELSE g

calculateScore(g) ==
    IF g.ChainCount > 0
    THEN LET lines == g.LinesCleared + g.ChainCount
             newLevel == (lines \div 10) + 1
             g1 == [g EXCEPT
                      !.Score = @ + 100 * chainBonus(g.ChainCount) * g.ChainCount,
                      !.LinesCleared = lines]
         IN IF newLevel > g.Level
            THEN [g1 EXCEPT !.Level = newLevel,
                            !.DropSpeed = IF newLevel < 20
                                          THEN LevelSpeed(newLevel)
                                          ELSE MinDropSpeed]
            ELSE g1
    ELSE g

\* ProcessChainStep that forgets to count the chain.
ProcessChainStepNoCount(g) ==
    CASE g.State = StateDropping ->
           LET g1 == applyGravity(g)
           IN IF hasClearablePuyos(g1)
              THEN [g |-> [g1 EXCEPT !.State = StateClearing], ok |-> TRUE]
              ELSE [g |-> SpawnNewPair([calculateScore(g1) EXCEPT
                                            !.State = StateNormal]),
                    ok |-> FALSE]
      [] g.State = StateClearing ->
           LET c == clearPuyos(g)
           IN [g |-> [c.g EXCEPT !.TotalChains = IF c.ok THEN @ + 1 ELSE @,
                                 !.State = StateDropping],
               ok |-> TRUE]
      [] OTHER -> [g |-> g, ok |-> FALSE]

\* ProcessChainStep that stays in StateClearing after a clear.
ProcessChainStepStuck(g) ==
    CASE g.State = StateDropping ->
           LET g1 == applyGravity(g)
           IN IF hasClearablePuyos(g1)
              THEN [g |-> [g1 EXCEPT !.State = StateClearing,
                                     !.ChainCount = g1.ChainCount + 1,
                                     !.CurrentChainNum = g1.ChainCount + 1],
                    ok |-> TRUE]
              ELSE [g |-> SpawnNewPair([calculateScore(g1) EXCEPT
                                            !.State = StateNormal]),
                    ok |-> FALSE]
      [] g.State = StateClearing ->
           LET c == clearPuyos(g)
           IN [g |-> [c.g EXCEPT !.TotalChains = IF c.ok THEN @ + 1 ELSE @],
               ok |-> TRUE]
      [] OTHER -> [g |-> g, ok |-> FALSE]

\* ProcessChainStep that spawns the next pair right after a clear, without
\* the Dropping step in between.
ProcessChainStepSkipsDropping(g) ==
    CASE g.State = StateDropping ->
           LET g1 == applyGravity(g)
           IN IF hasClearablePuyos(g1)
              THEN [g |-> [g1 EXCEPT !.State = StateClearing,
                                     !.ChainCount = g1.ChainCount + 1,
                                     !.CurrentChainNum = g1.ChainCount + 1],
                    ok |-> TRUE]
              ELSE [g |-> SpawnNewPair([calculateScore(g1) EXCEPT
                                            !.State = StateNormal]),
                    ok |-> FALSE]
      [] g.State = StateClearing ->
           LET c == clearPuyos(g)
               g1 == [c.g EXCEPT !.TotalChains = IF c.ok THEN @ + 1 ELSE @]
           IN [g |-> SpawnNewPair([calculateScore(applyGravity(g1)) EXCEPT
                                       !.State = StateNormal]),
               ok |-> FALSE]
      [] OTHER -> [g |-> g, ok |-> FALSE]

\* ProcessChainStep returns (the game after the call, the boolean result).
ProcessChainStep(g) ==
    CASE g.State = StateDropping ->
           LET g1 == applyGravity(g)
           IN IF hasClearablePuyos(g1)
              THEN [g |-> [g1 EXCEPT !.State = StateClearing,
                                     !.ChainCount = g1.ChainCount + 1,
                                     !.CurrentChainNum = g1.ChainCount + 1],
                    ok |-> TRUE]
              ELSE [g |-> SpawnNewPair([calculateScore(g1) EXCEPT
                                            !.State = StateNormal]),
                    ok |-> FALSE]
      [] g.State = StateClearing ->
           LET c == clearPuyos(g)
           IN [g |-> [c.g EXCEPT !.TotalChains = IF c.ok THEN @ + 1 ELSE @,
                                 !.State = StateDropping],
               ok |-> TRUE]
      [] OTHER -> [g |-> g, ok |-> FALSE]

(***************************************************************************)
(* High score (highscore.go).  The file holds the JSON object Marshal      *)
(* writes, keyed by the struct tags; the outcome of each I/O step of a     *)
(* call is an input, faults.                                               *)
(***************************************************************************)
\* &HighScore{}
ZeroHighScore == [Score |-> 0, Level |-> 0, Chains |-> 0]

\* No file at the path.
NoFile == [absent |-> TRUE]

\* A file that is not a JSON object: an empty or a partly written one.
Garbage == [garbage |-> TRUE]

\* json.Marshal(hs): {"score":..,"level":..,"chains":..}
Marshal(hs) == [score |-> hs.Score, level |-> hs.Level, chains |-> hs.Chains]

\* json.Unmarshal(data, &hs)
Unmarshal(data) ==
    IF "score" \in DOMAIN data
    THEN [hs |-> [Score |-> data.score, Level |-> data.level,
                  Chains |-> data.chains],
          err |-> FALSE]
    ELSE [hs |-> ZeroHighScore, err |-> TRUE]

\* The outcomes of the I/O steps of one call: getHighScorePath failing
\* (os.UserHomeDir or os.MkdirAll) in LoadHighScore and in SaveHighScore,
\* os.ReadFile failing for another reason than a missing file, and
\* os.WriteFile succeeding, failing before it touched the file, or failing
\* with the file partly written.
Faults ==
    [loadPath : BOOLEAN, read : BOOLEAN, savePath : BOOLEAN,
     write : {"ok", "refused", "partial"}]

NoFaults ==
    [loadPath |-> FALSE, read |-> FALSE, savePath |-> FALSE, write |-> "ok"]

\* LoadHighScore returns (the record, the error).
LoadHighScore(d, f) ==
    IF f.loadPath THEN [hs |-> ZeroHighScore, err |-> FALSE]
    ELSE IF f.read THEN [hs |-> Nil, err |-> TRUE]
    ELSE IF d = NoFile THEN [hs |-> ZeroHighScore, err |-> FALSE]
    ELSE IF Unmarshal(d).err THEN [hs |-> ZeroHighScore, err |-> FALSE]
    ELSE [hs |-> Unmarshal(d).hs, err |-> FALSE]

\* SaveHighScore returns the error; disk is the file after the call.
SaveHighScore(d, hs, f) ==
    IF f.savePath THEN [disk |-> d, err |-> TRUE]
    ELSE CASE f.write = "ok" -> [disk |-> Marshal(hs), err |-> FALSE]
           [] f.write = "refused" -> [disk |-> d, err |-> TRUE]
           [] OTHER -> [disk |-> Garbage, err |-> TRUE]

\* UpdateHighScore that takes a score equal to the stored one for a new
\* high score.
UpdateHighScoreOnTies(g, d, f) ==
    LET current == LoadHighScore(d, f)
    IN IF current.err
       THEN [hs |-> Nil, isNew |-> FALSE, err |-> TRUE, disk |-> d]
       ELSE IF g.Score >= current.hs.Score
       THEN LET newHS == [Score |-> g.Score, Level |-> g.Level,
                          Chains |-> g.TotalChains]
                saved == SaveHighScore(d, newHS, f)
            IN IF saved.err
               THEN [hs |-> Nil, isNew |-> FALSE, err |-> TRUE,
                     disk |-> saved.disk]
               ELSE [hs |-> newHS, isNew |-> TRUE, err |-> FALSE,
                     disk |-> saved.disk]
       ELSE [hs |-> current.hs, isNew |-> FALSE, err |-> FALSE, disk |-> d]

\* UpdateHighScore returns (the record, isNew, the error); disk is the file
\* after the call.
UpdateHighScore(g, d, f) ==
    LET current == LoadHighScore(d, f)
    IN IF current.err
       THEN [hs |-> Nil, isNew |-> FALSE, err |-> TRUE, disk |-> d]
       ELSE IF g.Score > current.hs.Score
       THEN LET newHS == [Score |-> g.Score, Level |-> g.Level,
                          Chains |-> g.TotalChains]
                saved == SaveHighScore(d, newHS, f)
            IN IF saved.err
               THEN [hs |-> Nil, isNew |-> FALSE, err |-> TRUE,
                     disk |-> saved.disk]
               ELSE [hs |-> newHS, isNew |-> TRUE, err |-> FALSE,
                     disk |-> saved.disk]
       ELSE [hs |-> current.hs, isNew |-> FALSE, err |-> FALSE, disk |-> d]

(***************************************************************************)
(* State                                                                   *)
(*   game  : the Game object ui.game points to                             *)
(*   call  : under SpecCore and SpecField, the method called last, its     *)
(*           arguments and its result; the scheduler of Spec returns       *)
(*           nothing and leaves it alone                                   *)
(*   locks : how many pairs have been locked since the start (the cap that *)
(*           keeps the explored games finite)                              *)
(*   disk  : the content of ~/.puyo/highscore.json                         *)
(***************************************************************************)
VARIABLES game, call, locks, disk

vars == <<game, call, locks, disk>>

MaxLocks == 1

Called(op, ret) ==
    [op |-> op, dx |-> 0, dy |-> 0, rot |-> 0, ret |-> ret, kx |-> 0, ky |-> 0]

\* A call of Move: its arguments, its result, and (kx, ky), how far the
\* pair went beyond the (dx, dy) asked for.
CalledMove(dx, dy, rot, ret, g, h) ==
    [op |-> "Move", dx |-> dx, dy |-> dy, rot |-> rot, ret |-> ret,
     kx |-> IF ret THEN h.Current.Pos.X - g.Current.Pos.X - dx ELSE 0,
     ky |-> IF ret THEN h.Current.Pos.Y - g.Current.Pos.Y - dy ELSE 0]

(***************************************************************************)
(* Boards a game is started from.  A board is given by its six columns,   *)
(* each listed from the floor upwards.  Every start board is one that play *)
(* from the empty field reaches with the score still 0: it is compacted,   *)
(* has no group of MinChain cells, has an even number of cells (each lock  *)
(* adds two, one to each of two neighbouring columns or two to one column) *)
(* and leaves the spawn cell free.                                         *)
(***************************************************************************)
BoardOf(stacks) ==
    [y \in Rows |-> [x \in Cols |->
        IF FieldHeight - y <= Len(stacks[x + 1])
        THEN stacks[x + 1][FieldHeight - y]
        ELSE Empty]]

\* the field of NewField
EmptyStacks == << <<>>, <<>>, <<>>, <<>>, <<>>, <<>> >>

\* a red pair on column 1 starts a chain of four; column 5 is a well one
\* cell wide in which an upright pair cannot turn
ChainOfFourStacks ==
    << <<Green, Green, Green, Blue, Blue, Blue, Red, Red, Red, Blue, Green>>,
       <<Yellow, Yellow, Yellow, Green, Yellow, Green>>,
       <<>>, <<>>, <<Yellow, Blue, Yellow, Blue>>, <<Blue>> >>

\* a red pair on column 1 starts a chain of three
ChainOfThreeStacks ==
    << <<Green, Green, Green, Blue, Blue, Blue, Red, Red, Red, Blue, Green>>,
       <<Yellow, Yellow, Blue, Green, Yellow, Green>>,
       <<>>, <<>>, <<>>, <<Blue>> >>

\* a red pair dropped straight down starts a chain of two
ChainOfTwoStacks ==
    << <<>>, <<>>,
       <<Green, Green, Green, Red, Red, Red, Green>>,
       <<Blue, Yellow, Blue>>,
       <<>>, <<>> >>

\* a pair laid flat on columns 2 and 3 completes two groups at once
TwoGroupsStacks ==
    << <<>>, <<>>, <<Red, Red, Red>>, <<Green, Green, Green>>, <<>>, <<>> >>

\* the spawn column is one cell short of full
NearlyFullStacks ==
    << <<Blue>>, <<>>, <<>>,
       <<Blue, Yellow, Blue, Yellow, Blue, Yellow, Blue, Yellow, Red, Red, Red>>,
       <<>>, <<>> >>

StartStacks ==
    { EmptyStacks, ChainOfFourStacks, ChainOfThreeStacks, ChainOfTwoStacks,
      TwoGroupsStacks, NearlyFullStacks }

StartBoards == { BoardOf(st) : st \in StartStacks }

\* The palette sizes asked for (the menu returns 4 or 5; 3 and 6 are the
\* invalid requests of the tests).
ColorRequests == {3, 4, 5, 6}

Init ==
    /\ \E n \in ColorRequests, seed \in Seeds, b \in StartBoards :
          game = [NewGameWithColors(n, seed) EXCEPT !.Field = b]
    /\ call = Called("NewGameWithColors", FALSE)
    /\ locks = 0
    /\ disk = NoFile

\* What an operation adds to the count of locked pairs.
Locked(g, h) == IF g.Current # Nil /\ h.Current = Nil THEN 1 ELSE 0

\* The cap: once MaxLocks pairs are locked and their chain has settled, the
\* explored game stops (a finished game is still explored).
Live == locks < MaxLocks \/ game.State # StateNormal \/ game.GameOver

(***************************************************************************)
(* The scheduler: the select loop of UI.Run, one case per action           *)
(***************************************************************************)
\* "if ui.game.ShouldLock() { ui.game.LockPair() }"
LockIfDue(g) == IF ShouldLock(g) THEN LockPair(g) ELSE g

Step(h) ==
    /\ Live
    /\ game' = h
    /\ locks' = locks + Locked(game, h)
    /\ UNCHANGED <<call, disk>>

\* The ticks' gate without the game-over test.
GateIgnoresGameOver(g) == ~g.Paused /\ g.State = StateNormal

Gate(g) == ~g.GameOver /\ ~g.Paused /\ g.State = StateNormal

\* case <-ticker.C
DropTickBody(g) ==
    IF Gate(g) THEN LockIfDue(Drop(g).g) ELSE g

DropTick == Step(DropTickBody(game))

\* The frame ticker counting every frame, grounded or not.
FrameTickBodyCountsInAir(g) ==
    IF Gate(g)
    THEN LockIfDue([g EXCEPT !.GroundFrames = @ + 1])
    ELSE g

\* case <-frameTicker.C
FrameTickBody(g) ==
    IF Gate(g) /\ IsOnGround(g)
    THEN LockIfDue([g EXCEPT !.GroundFrames = @ + 1])
    ELSE g

FrameTick == Step(FrameTickBody(game))

\* case <-chainTicker.C
ChainTickBody(g) ==
    IF ~g.GameOver /\ ~g.Paused /\ g.State # StateNormal
    THEN ProcessChainStep(g)
    ELSE [g |-> g, ok |-> FALSE]

ChainTick == Step(ChainTickBody(game).g)

\* 'p'
KeyPause == Step(TogglePause(game))

\* The key gate without the pause test.
KeyGateIgnoresPause(g) == ~g.GameOver /\ g.State = StateNormal

\* The keys below are dropped when the game is over, a chain is running or
\* the game is paused.
KeyGate(g) == ~g.GameOver /\ ~(g.State # StateNormal \/ g.Paused)

KeyMoveBody(g, dx, rot) ==
    IF KeyGate(g) THEN Move(g, dx, 0, rot) ELSE [g |-> g, ok |-> FALSE]

KeyLeft == Step(KeyMoveBody(game, -1, 0).g)

KeyRight == Step(KeyMoveBody(game, 1, 0).g)

KeyRotateCCW == Step(KeyMoveBody(game, 0, -1).g)

KeyRotateCW == Step(KeyMoveBody(game, 0, 1).g)

KeyDownBody(g) ==
    IF KeyGate(g) THEN LockIfDue(Drop(g).g) ELSE g

KeyDown == Step(KeyDownBody(game))

\* 'r' when the game is over: ui.game = NewGameWithColors(oldColorCount)
KeyRestart ==
    /\ game.GameOver
    /\ \E seed \in Seeds :
          Step(NewGameWithColors(game.ColorCount, seed))

Next ==
    \/ DropTick
    \/ FrameTick
    \/ ChainTick
    \/ KeyPause
    \/ KeyLeft
    \/ KeyRight
    \/ KeyRotateCCW
    \/ KeyRotateCW
    \/ KeyDown
    \/ KeyRestart

Spec == Init /\ [][Next]_vars

\* The chain ticker has work to do: its case of the select loop passes its
\* test, which is when <<ChainTick>>_vars is enabled.
ChainDue == ~game.GameOver /\ ~game.Paused /\ game.State # StateNormal

\* The chain ticker keeps firing: WF_vars(ChainTick), with
\* ENABLED <<ChainTick>>_vars written out as ChainDue.
FairSpec == Spec /\ ([]<>~ChainDue \/ []<><<ChainTick>>_vars)

\* The drop ticker and the frame ticker have work to do: their cases of the
\* select loop would change the game, which is when <<DropTick>>_vars and
\* <<FrameTick>>_vars are enabled.
DropDue == Live /\ DropTickBody(game) # game

FrameDue == Live /\ FrameTickBody(game) # game

\* The three tickers keep firing: WF_vars of DropTick, FrameTick and
\* ChainTick, with ENABLED written out as DropDue, FrameDue and ChainDue.
TickFairSpec ==
    /\ Spec
    /\ ([]<>~DropDue \/ []<><<DropTick>>_vars)
    /\ ([]<>~FrameDue \/ []<><<FrameTick>>_vars)
    /\ ([]<>~ChainDue \/ []<><<ChainTick>>_vars)

(***************************************************************************)
(* SpecLevels: the scheduler on games in progress.  A game in progress has *)
(* already resolved a number of chain sequences, each scored by            *)
(* calculateScore, and stands on one of the start boards.                  *)
(***************************************************************************)
\* What a resolved chain sequence of depth d leaves in the counters: its
\* Clearing steps count d chains, the last Dropping step scores them, the
\* spawn resets ChainCount.
\* n resolved chain sequences of depth d each, one after the other.
RECURSIVE AfterChains(_, _, _)
AfterChains(g, d, n) ==
    IF n = 0 THEN g
    ELSE AfterChains(
             [calculateScore([g EXCEPT !.ChainCount = d,
                                       !.TotalChains = @ + d])
                 EXCEPT !.ChainCount = 0],
             d, n - 1)

\* Games so far, as count sequences of depth each: nine single chains
\* (9 chains, just below the second level) and nine sequences of depth two
\* (18 chains, just below the third).
PastGames ==
    { [depth |-> 1, count |-> 9], [depth |-> 2, count |-> 9] }

LevelBoards ==
    { BoardOf(ChainOfFourStacks), BoardOf(ChainOfTwoStacks),
      BoardOf(NearlyFullStacks) }

InitLevels ==
    /\ \E p \in PastGames, seed \in Seeds, b \in LevelBoards :
          game = [AfterChains(NewGameWithColors(4, seed), p.depth, p.count)
                     EXCEPT !.Field = b]
    /\ call = Called("NewGameWithColors", FALSE)
    /\ locks = 0
    /\ disk = NoFile

SpecLevels == InitLevels /\ [][Next]_vars

(***************************************************************************)
(* SpecSpeed: a long game seen at the ends of its chain sequences.  Each   *)
(* step is one resolved sequence, scored by calculateScore; the game runs  *)
(* on until MaxLines chains are cleared.                                   *)
(***************************************************************************)
MaxLines == 215

\* The depths of the sequences: single chains, chains of four, and chains
\* of eleven, which can take the game up two levels at once.
ChainDepths == {1, 4, 11}

InitSpeed ==
    /\ \E seed \in Seeds : game = NewGameWithColors(4, seed)
    /\ call = Called("NewGameWithColors", FALSE)
    /\ locks = 0
    /\ disk = NoFile

SpeedChain ==
    /\ game.LinesCleared < MaxLines
    /\ \E d \in ChainDepths : game' = AfterChains(game, d, 1)
    /\ UNCHANGED <<call, locks, disk>>

NextSpeed == SpeedChain

SpecSpeed == InitSpeed /\ [][NextSpeed]_vars

(***************************************************************************)
(* SpecCore: the methods that control the falling pair, called directly    *)
(* and in any order, as game_test.go calls them; call records each call.   *)
(***************************************************************************)
MoveDX == {-1, 0, 1}
MoveDY == {0, 1}
MoveRot == {-1, 0, 1}

\* The pair is steered over two of the start boards: walls, stacks, a well.
CoreBoards == { BoardOf(ChainOfFourStacks), BoardOf(ChainOfTwoStacks) }

InitCore ==
    /\ \E b \in CoreBoards : game = [NewGameWithColors(4, 1) EXCEPT !.Field = b]
    /\ call = Called("NewGameWithColors", FALSE)
    /\ locks = 0
    /\ disk = NoFile

CoreMove ==
    \E dx \in MoveDX, dy \in MoveDY, rot \in MoveRot :
        LET r == Move(game, dx, dy, rot)
        IN /\ game' = r.g
           /\ call' = CalledMove(dx, dy, rot, r.ok, game, r.g)
           /\ UNCHANGED <<locks, disk>>

CoreDrop ==
    LET r == Drop(game)
    IN /\ game' = r.g
       /\ call' = Called("Drop", r.ok)
       /\ UNCHANGED <<locks, disk>>

\* HardDrop returns nothing; ky records how many rows the pair fell.
CoreHardDrop ==
    LET h == HardDrop(game)
    IN /\ game' = h
       /\ call' = [Called("HardDrop", FALSE) EXCEPT
                      !.ky = h.Current.Pos.Y - game.Current.Pos.Y]
       /\ UNCHANGED <<locks, disk>>

\* "if IsOnGround() { GroundFrames++ }", the frame ticker's count; nothing
\* locks the pair here, so the count stops at MaxGroundFrames.
CoreGroundFrame ==
    /\ game.GroundFrames < game.MaxGroundFrames
    /\ game' = IF IsOnGround(game)
               THEN [game EXCEPT !.GroundFrames = @ + 1]
               ELSE game
    /\ call' = Called("IsOnGround", IsOnGround(game))
    /\ UNCHANGED <<locks, disk>>

CoreShouldLock ==
    /\ call' = Called("ShouldLock", ShouldLock(game))
    /\ UNCHANGED <<game, locks, disk>>

NextCore ==
    \/ CoreMove
    \/ CoreDrop
    \/ CoreHardDrop
    \/ CoreGroundFrame
    \/ CoreShouldLock

SpecCore == InitCore /\ [][NextCore]_vars

(***************************************************************************)
(* SpecField: the chain resolver's functions applied to sample grids, the  *)
(* way the tests write Grid cells and then call them.  A sample fills the  *)
(* cells of a window at the floor with any mix of SampleColors.            *)
(***************************************************************************)
SampleCols == {0, 1, 2, 3}
SampleRows == {10, 11}
SampleColors == {Empty, Red, Green}

SampleFields ==
    { [y \in Rows |-> [x \in Cols |->
          IF x \in SampleCols /\ y \in SampleRows THEN w[y][x] ELSE Empty]] :
      w \in [SampleRows -> [SampleCols -> SampleColors]] }

InitField ==
    /\ \E f \in SampleFields : game = [NewGameWithColors(4, 1) EXCEPT !.Field = f]
    /\ call = Called("NewGameWithColors", FALSE)
    /\ locks = 0
    /\ disk = NoFile

FieldGravity ==
    /\ game' = applyGravity(game)
    /\ call' = Called("applyGravity", FALSE)
    /\ UNCHANGED <<locks, disk>>

FieldHasClearable ==
    /\ call' = Called("hasClearablePuyos", hasClearablePuyos(game))
    /\ UNCHANGED <<game, locks, disk>>

FieldClear ==
    LET r == clearPuyos(game)
    IN /\ game' = r.g
       /\ call' = Called("clearPuyos", r.ok)
       /\ UNCHANGED <<locks, disk>>

NextField ==
    \/ FieldGravity
    \/ FieldHasClearable
    \/ FieldClear

SpecField == InitField /\ [][NextField]_vars

(***************************************************************************)
(* SpecGrid: the Field methods and applyGravity on grids written cell by   *)
(* cell, the way the tests arrange a grid, query it and then let it fall.  *)
(* call keeps the arguments (x, y, color) in dx, dy, rot.                  *)
(***************************************************************************)
CalledAt(op, x, y, color, ret) ==
    [Called(op, ret) EXCEPT !.dx = x, !.dy = y, !.rot = color]

\* Queried positions: every column and one beyond each wall; rows above
\* the screen, at its top, middle and floor, and below it.
GridXs == -1 .. FieldWidth
GridYs == {-2, -1, 0, 6, FieldHeight - 1, FieldHeight}

\* Written positions: four cells of the grid, and six outside of it.
PlaceInside == { Position(0, 0), Position(0, 6), Position(0, FieldHeight - 1),
                 Position(1, 0) }
PlaceOutside == { Position(-1, 6), Position(FieldWidth, 6), Position(0, -1),
                  Position(0, FieldHeight), Position(-1, -1),
                  Position(FieldWidth, FieldHeight) }
PlacePoints == PlaceInside \cup PlaceOutside
PlaceColors == {Empty, Red}

GridBoards == { NewField, BoardOf(ChainOfFourStacks) }

InitGrid ==
    /\ \E b \in GridBoards : game = [NewGameWithColors(4, 1) EXCEPT !.Field = b]
    /\ call = Called("NewGameWithColors", FALSE)
    /\ locks = 0
    /\ disk = NoFile

\* The grid is arranged and queried before it is let fall, not after.
Arranging == call.op # "applyGravity"

GridQuery ==
    /\ Arranging
    /\ \E x \in GridXs, y \in GridYs :
          call' = CalledAt("IsValidPosition", x, y, Empty,
                           IsValidPosition(game.Field, x, y))
    /\ UNCHANGED <<game, locks, disk>>

\* PlacePuyo returns nothing; ret records whether the grid changed.
GridPlace ==
    /\ Arranging
    /\ \E p \in PlacePoints, c \in PlaceColors :
          LET f == PlacePuyo(game.Field, p.X, p.Y, c)
          IN /\ game' = [game EXCEPT !.Field = f]
             /\ call' = CalledAt("PlacePuyo", p.X, p.Y, c, f # game.Field)
    /\ UNCHANGED <<locks, disk>>

\* applyGravity returns nothing; ret records whether the grid changed.
GridGravity ==
    LET h == applyGravity(game)
    IN /\ game' = h
       /\ call' = Called("applyGravity", h # game)
       /\ UNCHANGED <<locks, disk>>

NextGrid ==
    \/ GridQuery
    \/ GridPlace
    \/ GridGravity

SpecGrid == InitGrid /\ [][NextGrid]_vars

(***************************************************************************)
(* SpecScores: sessions end one after the other and main updates the high  *)
(* score with each finished game; call records the call, the outcomes of   *)
(* its I/O steps and what it returned.                                     *)
(***************************************************************************)
CalledHighScore(op, f, r) ==
    [op |-> op, faults |-> f, ret |-> r.isNew, err |-> r.err, hs |-> r.hs]

\* The games sessions end with: none, one, three or five chain sequences
\* of depth one or two resolved (scores 0 to 2000, levels 1 and 2).
Sessions ==
    { AfterChains(NewGameWithColors(4, 1), d, n) : d \in {1, 2}, n \in {0, 1, 3, 5} }

InitScores ==
    /\ game = NewGameWithColors(4, 1)
    /\ call = Called("NewGameWithColors", FALSE)
    /\ locks = 0
    /\ disk \in {NoFile, Garbage}

\* main, at the start of a session: LoadHighScore()
ScoresLoad ==
    /\ \E f \in Faults :
          LET r == LoadHighScore(disk, f)
          IN call' = CalledHighScore("LoadHighScore", f,
                                     [isNew |-> FALSE, err |-> r.err, hs |-> r.hs])
    /\ UNCHANGED <<game, locks, disk>>

\* main, after ui.Run: UpdateHighScore(game)
ScoresUpdate ==
    /\ \E s \in Sessions, f \in Faults :
          LET r == UpdateHighScore(s, disk, f)
          IN /\ game' = s
             /\ disk' = r.disk
             /\ call' = CalledHighScore("UpdateHighScore", f, r)
    /\ UNCHANGED locks

NextScores ==
    \/ ScoresLoad
    \/ ScoresUpdate

SpecScores == InitScores /\ [][NextScores]_vars

(***************************************************************************)
(* Properties of Move (SpecCore)                                           *)
(***************************************************************************)
\* The sub cell's offset from the main cell, by rotation state.
SubOffset == << <<0, -1>>, <<1, 0>>, <<0, 1>>, <<-1, 0>> >>

\* Both cells of a pair with main cell (x, y) and rotation rot are valid.
Fits(f, x, y, rot) ==
    /\ IsValidPosition(f, x, y)
    /\ IsValidPosition(f, x + SubOffset[rot + 1][1], y + SubOffset[rot + 1][2])

PairFits(g) ==
    Fits(g.Field, g.Current.Pos.X, g.Current.Pos.Y, g.Current.Rotate)

\* C1: Move is atomic.  It returns true only if, in the resulting state, the
\* main cell and the sub cell of the new rotation are both valid; when it
\* returns false (the base candidate and every kick rejected) the position,
\* the rotation and GroundFrames are what they were; and Move never changes a
\* board cell.
C1_MoveAtomic ==
    [][call'.op = "Move" =>
          /\ call'.ret => PairFits(game')
          /\ ~call'.ret => /\ game'.Current = game.Current
                           /\ game'.GroundFrames = game.GroundFrames
          /\ game'.Field = game.Field]_vars

\* A rotation was asked for and refused, every kick included.
C1_Witness ==
    /\ call.op = "Move"
    /\ call.rot # 0
    /\ call.dx = 0
    /\ call.dy = 0
    /\ ~call.ret

\* The candidates Move tries, in order, as shifts of the main cell.
KickCandidates(dx, dy, rot) ==
    IF rot # 0
    THEN << <<dx, dy>>, <<dx - 1, dy>>, <<dx + 1, dy>>, <<dx, dy - 1>> >>
    ELSE << <<dx, dy>> >>

\* The number of the first candidate from the i-th on whose two cells are
\* valid, 0 when there is none.
RECURSIVE FirstFit(_, _, _, _, _)
FirstFit(f, cur, newRot, cands, i) ==
    IF i > Len(cands) THEN 0
    ELSE IF Fits(f, cur.Pos.X + cands[i][1], cur.Pos.Y + cands[i][2], newRot)
    THEN i
    ELSE FirstFit(f, cur, newRot, cands, i + 1)

\* C2: kicks are tried only for drot # 0 and only after the base candidate
\* failed, in the order (-1,0), (+1,0), (0,-1); the first candidate whose two
\* cells are valid is committed, and none when there is none.  With drot = 0
\* an accepted move displaces the pair by exactly (dx, dy).
C2_KickOrder ==
    [][call'.op = "Move" =>
          LET cands == KickCandidates(call'.dx, call'.dy, call'.rot)
              newRot == (game.Current.Rotate + call'.rot + 4) % 4
              first == FirstFit(game.Field, game.Current, newRot, cands, 1)
          IN IF first = 0
             THEN ~call'.ret /\ game'.Current = game.Current
             ELSE /\ call'.ret
                  /\ game'.Current.Pos =
                         Position(game.Current.Pos.X + cands[first][1],
                                  game.Current.Pos.Y + cands[first][2])
                  /\ game'.Current.Rotate = newRot
                  /\ call'.rot = 0 => (call'.kx = 0 /\ call'.ky = 0)]_vars

\* A rotation was saved by the second kick, one column to the right.
C2_Witness ==
    /\ call.op = "Move"
    /\ call.rot # 0
    /\ call.ret
    /\ call.kx = 1

\* C9: every accepted move with dx # 0 or drot # 0, kicked or not, sets
\* GroundFrames to 0; an accepted purely downward move leaves it unchanged.
C9_LockCounterReset ==
    [][(call'.op = "Move" /\ call'.ret) =>
          IF call'.dx # 0 \/ call'.rot # 0
          THEN game'.GroundFrames = 0
          ELSE game'.GroundFrames = game.GroundFrames]_vars

\* A rotation accepted through the floor kick, the counter at 0.
C9_Witness ==
    /\ call.op = "Move"
    /\ call.ret
    /\ call.ky = -1
    /\ game.GroundFrames = 0

\* C10: ShouldLock is true exactly when GroundFrames >= 32, and the counter
\* of a grounded pair grows by one per frame, so a pair that stays grounded
\* is lockable after 32 frames from 0 and not before.
C10_ShouldLockThreshold ==
    [][/\ call'.op = "ShouldLock" => (call'.ret <=> game'.GroundFrames >= 32)
       /\ game'.GroundFrames > game.GroundFrames =>
             \/ call'.op = "HardDrop"
             \/ /\ game'.GroundFrames = game.GroundFrames + 1
                /\ IsOnGround(game)
                /\ game'.Current = game.Current]_vars

\* Asked one frame short of the threshold, ShouldLock said no.
C10_Witness ==
    /\ call.op = "ShouldLock"
    /\ ~call.ret
    /\ game.GroundFrames = 31

(***************************************************************************)
(* Groups and gravity, stated on the grid                                  *)
(***************************************************************************)
Cells == { Position(x, y) : x \in Cols, y \in Rows }

Around(p) ==
    { Position(p.X + 1, p.Y), Position(p.X - 1, p.Y),
      Position(p.X, p.Y + 1), Position(p.X, p.Y - 1) } \cap Cells

\* The least set of cells that holds S and every neighbour of colour c of
\* one of its cells.
RECURSIVE Grow(_, _, _)
Grow(f, c, S) ==
    LET more == { q \in UNION { Around(p) : p \in S } : f[q.Y][q.X] = c }
    IN IF more \subseteq S THEN S ELSE Grow(f, c, S \cup more)

\* The maximal 4-connected same-colour group of an occupied cell.
GroupOf(f, p) == Grow(f, f[p.Y][p.X], {p})

\* The cells of the groups of MinChain cells or more.
Doomed(f) ==
    { p \in Cells : f[p.Y][p.X] # Empty /\ Cardinality(GroupOf(f, p)) >= 4 }

\* No empty cell lies below an occupied one.
Compacted(f) ==
    \A x \in Cols : \A y \in Rows :
        (f[y][x] # Empty /\ y + 1 < FieldHeight) => f[y + 1][x] # Empty

\* The colours of column x from the top down, the empty cells left out.
RECURSIVE ColumnStack(_, _, _)
ColumnStack(f, x, y) ==
    IF y >= FieldHeight THEN <<>>
    ELSE IF f[y][x] = Empty THEN ColumnStack(f, x, y + 1)
    ELSE <<f[y][x]>> \o ColumnStack(f, x, y + 1)

Settled(f, h) ==
    /\ Compacted(h)
    /\ \A x \in Cols : ColumnStack(h, x, 0) = ColumnStack(f, x, 0)

ScoreDelta(d) == IF d > 0 THEN 100 * d * 2 ^ (d - 1) ELSE 0

(***************************************************************************)
(* Properties of the chain resolver and the score                          *)
(***************************************************************************)
\* C3: one Dropping step applies gravity; if the compacted board then holds
\* a group of 4 or more, ChainCount grows by exactly 1, State becomes
\* Clearing and nothing is scored or spawned; otherwise the score is
\* finalised, State becomes Normal and the next pair is spawned with
\* ChainCount back at 0.
C3_DroppingStep ==
    [][game.State = StateDropping =>
          /\ Settled(game.Field, game'.Field)
          /\ IF Doomed(game'.Field) # {}
             THEN /\ game'.State = StateClearing
                  /\ game'.ChainCount = game.ChainCount + 1
                  /\ game'.Score = game.Score
                  /\ game'.LinesCleared = game.LinesCleared
                  /\ game'.Current = Nil
                  /\ game'.Next = game.Next
             ELSE /\ game'.State = StateNormal
                  /\ game'.ChainCount = 0
                  /\ game'.Current = game.Next
                  /\ game'.Score = game.Score + ScoreDelta(game.ChainCount)
                  /\ game'.LinesCleared = game.LinesCleared + game.ChainCount
         ]_vars

\* A second Dropping step of one sequence found a group again.
C3_Witness ==
    /\ game.State = StateClearing
    /\ game.ChainCount = 2

\* C4: one pass of clearPuyos empties exactly the cells of the maximal
\* groups of 4 or more of the board as it was before the pass, all of them
\* in that pass, and leaves every other cell as it was; it returns true iff
\* there was such a group.
C4_ClearingPass ==
    [][call'.op = "clearPuyos" =>
          /\ game'.Field =
                [y \in Rows |-> [x \in Cols |->
                    IF Position(x, y) \in Doomed(game.Field)
                    THEN Empty ELSE game.Field[y][x]]]
          /\ call'.ret <=> Doomed(game.Field) # {}]_vars

\* A pass cleared something and left a smaller group standing.
C4_Witness ==
    /\ call.op = "clearPuyos"
    /\ call.ret
    /\ \E p \in Cells :
          /\ game.Field[p.Y][p.X] # Empty
          /\ Cardinality(GroupOf(game.Field, p)) = 3

\* C5: chain resolution terminates: with the chain ticker firing, every
\* Dropping or Clearing state leads to State = Normal, and the chain depth
\* never exceeds FieldWidth * FieldHeight / MinChain.
C5_ChainTerminates ==
    /\ (game.State # StateNormal) ~> (game.State = StateNormal)
    /\ [](game.ChainCount * MinChain <= FieldWidth * FieldHeight)
    /\ [](ChainDue <=> (Live /\ ChainTickBody(game).g # game))

\* A sequence of four chains has settled.
C5_Witness ==
    /\ game.State = StateNormal
    /\ game.TotalChains = 4
    /\ locks = 1

ScoreTable == <<100, 400, 1200, 3200>>

\* C6: the score changes only at the Dropping step that finds nothing to
\* clear: with chain depth d > 0 it grows by 100 * d * 2^(d-1) (100, 400,
\* 1200, 3200 for d = 1..4) and LinesCleared by d; with d = 0 Score,
\* LinesCleared, Level and DropSpeed stay.  (A restart after game over
\* starts another game.)
C6_ScoreOncePerSequence ==
    [][IF game.State = StateDropping /\ game'.State = StateNormal
       THEN LET d == game.ChainCount
            IN IF d > 0
               THEN /\ game'.Score = game.Score + 100 * d * 2 ^ (d - 1)
                    /\ d <= 4 => game'.Score - game.Score = ScoreTable[d]
                    /\ game'.LinesCleared = game.LinesCleared + d
               ELSE /\ game'.Score = game.Score
                    /\ game'.LinesCleared = game.LinesCleared
                    /\ game'.Level = game.Level
                    /\ game'.DropSpeed = game.DropSpeed
       ELSE \/ game.GameOver
            \/ /\ game'.Score = game.Score
               /\ game'.LinesCleared = game.LinesCleared]_vars

\* A chain of depth four was scored.
C6_Witness ==
    /\ game.Score = 3200
    /\ game.LinesCleared = 4

(***************************************************************************)
(* Properties of spawn and game over                                       *)
(***************************************************************************)
\* C7: a spawn puts the new pair at (FieldWidth / 2, 0) with rotation 0, and
\* sets GameOver iff that cell is occupied; the sub cell at row -1 never
\* blocks.
C7_SpawnAndGameOver ==
    [][(game.State = StateDropping /\ game'.State = StateNormal) =>
          /\ game'.Current # Nil
          /\ game'.Current.Pos = Position(FieldWidth \div 2, 0)
          /\ game'.Current.Rotate = 0
          /\ GetSubPosition(game'.Current) = Position(FieldWidth \div 2, -1)
          /\ game'.GameOver <=> game'.Field[0][FieldWidth \div 2] # Empty]_vars

\* A spawn onto the occupied cell ended the game.
C7_Witness ==
    /\ game.GameOver
    /\ game.Field[0][FieldWidth \div 2] # Empty
    /\ game.Current # Nil
    /\ game.Current.Pos = Position(FieldWidth \div 2, 0)

\* C8: game over is terminal: from a state with GameOver no tick and no key
\* changes the game (pair, board, State, Score, GroundFrames, GameOver); the
\* one exception is the restart key, which replaces the game by a new one.
C8_GameOverTerminal ==
    [][game.GameOver =>
          \/ game' = game
          \/ \E seed \in Seeds :
                game' = NewGameWithColors(game.ColorCount, seed)]_vars

\* The game is over with the blocked pair still in place and its ground
\* timer never started.
C8_Witness ==
    /\ game.GameOver
    /\ game.State = StateNormal
    /\ game.GroundFrames = 0
    /\ ~game.Paused
    /\ IsOnGround(game)

C12_AboveScreenValidForEveryX ==
    (call.op = "IsValidPosition" /\ call.dy < 0) => call.ret

\* C12: for every y < 0 the query IsValidPosition(x, y) answers valid,
\* whatever the grid contains, exactly when x is a column of the board
\* (0 <= x < FieldWidth); beyond the walls it answers invalid above the
\* screen too.
C12_AboveScreenValid ==
    (call.op = "IsValidPosition" /\ call.dy < 0) =>
        (call.ret <=> (0 <= call.dx /\ call.dx < FieldWidth))

\* A cell above a column that is full to the top row was found valid.
C12_Witness ==
    /\ call.op = "IsValidPosition"
    /\ call.dy < 0
    /\ call.dx = 0
    /\ call.ret
    /\ game.Field[0][0] # Empty

\* C13: for x outside [0, FieldWidth) or y >= FieldHeight the query answers
\* invalid and PlacePuyo leaves every cell alone; PlacePuyo with y < 0 does
\* nothing either; inside the grid it writes the colour to that one cell,
\* whatever the cell held, and changes no other cell.
C13_OutOfRange ==
    [][LET x == call'.dx
           y == call'.dy
       IN /\ (call'.op = "IsValidPosition"
                 /\ (x < 0 \/ x >= FieldWidth \/ y >= FieldHeight))
               => ~call'.ret
          /\ call'.op = "PlacePuyo" =>
               /\ \A yy \in Rows : \A xx \in Cols :
                      game'.Field[yy][xx] =
                          IF xx = x /\ yy = y THEN call'.rot
                          ELSE game.Field[yy][xx]
               /\ (x \notin Cols \/ y \notin Rows) => game'.Field = game.Field
               /\ DOMAIN game'.Field = Rows
               /\ \A yy \in Rows : DOMAIN game'.Field[yy] = Cols]_vars

\* A puyo was written over an occupied cell in the middle of a stack.
C13_Witness ==
    /\ call.op = "PlacePuyo"
    /\ call.ret
    /\ call.dx = 0 /\ call.dy = 6
    /\ game.Field[6][0] = Red
    /\ game.Field[5][0] = Red
    /\ game.Field[7][0] = Blue

\* C14: applyGravity compacts each column on its own: afterwards no empty
\* cell lies below an occupied one, each column holds from the top down the
\* colours it held before (so nothing changes column and the cells above
\* are Empty), and a compacted grid is left as it is.
C14_Gravity ==
    [][call'.op = "applyGravity" =>
          /\ Settled(game.Field, game'.Field)
          /\ Compacted(game.Field) => game'.Field = game.Field
          /\ game' = [game EXCEPT !.Field = game'.Field]]_vars

\* A stack of several colours fell into a gap at the floor.
C14_Witness ==
    /\ call.op = "applyGravity"
    /\ call.ret
    /\ game.Field[FieldHeight - 1][0] = Green
    /\ Len(ColumnStack(game.Field, 0, 0)) >= 9
    /\ game.Field[0][0] = Empty

(***************************************************************************)
(* Properties of pause                                                     *)
(***************************************************************************)
\* C15: TogglePause is refused, changing nothing, whenever State is not
\* Normal (Dropping and Clearing alike) or the game is over; otherwise it
\* flips Paused and changes nothing else, so two accepted toggles in a row
\* give back the state they started from.  No step of the game changes
\* Paused in any other way.
C15_TogglePause ==
    /\ [](LET h == TogglePause(game)
          IN IF game.State # StateNormal \/ game.GameOver
             THEN h = game
             ELSE /\ h.Paused = ~game.Paused
                  /\ [h EXCEPT !.Paused = game.Paused] = game
                  /\ TogglePause(h) = game)
    /\ [][game'.Paused # game.Paused =>
              /\ game.State = StateNormal
              /\ ~game.GameOver
              /\ game' = [game EXCEPT !.Paused = ~game.Paused]]_vars

\* The game was paused with the pair on its way down.
C15_Witness ==
    /\ game.Paused
    /\ game.State = StateNormal
    /\ game.Current.Pos.Y > 0

(***************************************************************************)
(* Properties of the palette                                               *)
(***************************************************************************)
\* The colours a game of colorCount colours draws from.
Palette(colorCount) ==
    IF colorCount = 5 THEN {Red, Green, Blue, Yellow, Purple}
    ELSE {Red, Green, Blue, Yellow}

PairInPalette(p, colorCount) ==
    p # Nil => (p.Main \in Palette(colorCount) /\ p.Sub \in Palette(colorCount))

\* What NewGameWithColors makes of each request: ColorCount 5 for 5 and 4
\* for anything else, and pairs drawn from that palette.
NewGamePalette ==
    \A n \in ColorRequests : \A seed \in Seeds :
        /\ NewGameWithColors(n, seed).ColorCount = IF n = 5 THEN 5 ELSE 4
        /\ n # 5 => NewGameWithColors(n, seed) = NewGameWithColors(4, seed)
        /\ PairInPalette(NewGameWithColors(n, seed).Current,
                         IF n = 5 THEN 5 ELSE 4)
        /\ PairInPalette(NewGameWithColors(n, seed).Next,
                         IF n = 5 THEN 5 ELSE 4)

\* C16: NewGameWithColors(n) has ColorCount 5 for n = 5 and 4 for every
\* other n (3 and 6 give the game that 4 gives); in every reachable state
\* every board cell is Empty or a colour of the palette and both cells of
\* the current and of the next pair are colours of the palette, so with
\* ColorCount 4 there is no Purple anywhere.
C16_Palette ==
    /\ NewGamePalette
    /\ game.ColorCount \in {4, 5}
    /\ \A y \in Rows : \A x \in Cols :
          game.Field[y][x] \in {Empty} \cup Palette(game.ColorCount)
    /\ PairInPalette(game.Current, game.ColorCount)
    /\ PairInPalette(game.Next, game.ColorCount)

\* A game of five colours has a pair with a purple puyo falling, after a
\* first pair was locked.
C16_Witness ==
    /\ game.ColorCount = 5
    /\ game.Current # Nil
    /\ game.Current.Main = Purple
    /\ locks = 1

(***************************************************************************)
(* Properties of rotation (SpecCore)                                       *)
(***************************************************************************)
\* The 'x' key: rotate clockwise.
RotateCw(g) == Move(g, 0, 0, 1).g

\* The sub cell's offset from the main cell, as GetSubPosition gives it.
OffsetOf(p) ==
    <<GetSubPosition(p).X - p.Pos.X, GetSubPosition(p).Y - p.Pos.Y>>

CellFree(f, x, y) ==
    /\ 0 <= x /\ x < FieldWidth
    /\ y < FieldHeight
    /\ y < 0 \/ f[y][x] = Empty

\* C18: in every reachable state with a falling pair and the game not over,
\* the main cell and the sub cell are valid positions: inside the walls,
\* above the floor, and above the screen or on an empty cell.
C18_PairOnFreeCells ==
    (game.Current # Nil /\ ~game.GameOver) =>
        LET p == game.Current
        IN /\ CellFree(game.Field, p.Pos.X, p.Pos.Y)
           /\ p.Rotate \in 0 .. 3
           /\ CellFree(game.Field, p.Pos.X + SubOffset[p.Rotate + 1][1],
                        p.Pos.Y + SubOffset[p.Rotate + 1][2])

\* The pair lies flat on the floor against the left wall, its lock delay
\* running.
C18_Witness ==
    /\ ~game.GameOver
    /\ game.Current # Nil
    /\ game.Current.Rotate = 3
    /\ game.Current.Pos = Position(1, FieldHeight - 1)
    /\ game.GroundFrames > 0

(***************************************************************************)
(* Properties of the level and the counters (SpecLevels)                   *)
(***************************************************************************)
\* C19: in every reachable state Level = floor(LinesCleared / 10) + 1, and
\* within a game Level, LinesCleared, Score and TotalChains never decrease.
\* (The restart key, after game over, puts a new game in its place.)
C19_LevelAndCounters ==
    /\ [](game.Level = (game.LinesCleared \div 10) + 1)
    /\ [][\/ /\ game.GameOver
              /\ \E seed \in Seeds :
                    game' = NewGameWithColors(game.ColorCount, seed)
           \/ /\ game'.Level >= game.Level
              /\ game'.LinesCleared >= game.LinesCleared
              /\ game'.Score >= game.Score
              /\ game'.TotalChains >= game.TotalChains]_vars

\* A chain of depth four took the game from nine cleared chains into the
\* second level.
C19_Witness ==
    /\ game.LinesCleared = 13
    /\ game.Level = 2
    /\ game.TotalChains = 13
    /\ game.Score = 900 + 3200

(***************************************************************************)
(* Properties of the high score (SpecScores)                               *)
(***************************************************************************)
\* The stored record: what a load with no failing step reads from the file.
Stored(d) == LoadHighScore(d, NoFaults).hs

SessionRecord(g) ==
    [Score |-> g.Score, Level |-> g.Level, Chains |-> g.TotalChains]

\* What C20 says of one update, given the file before and after it.
UpdateAsClaimed(c, g, before, after) ==
    /\ c.ret <=> g.Score > Stored(before).Score
    /\ c.ret => (Stored(after) = SessionRecord(g) /\ c.hs = SessionRecord(g))
    /\ ~c.ret => (after = before /\ c.hs = Stored(before))
    /\ Stored(after).Score >= Stored(before).Score
    /\ Stored(after).Score =
          IF g.Score > Stored(before).Score THEN g.Score
          ELSE Stored(before).Score

MainHighScore(r) == IF r.err THEN ZeroHighScore ELSE r.hs

\* An I/O step of a call of op failed: the path lookup or the read of the
\* load, or, in an update that goes on to save g's record over the file d,
\* the path lookup or the write of the save.
StepFailed(op, f, g, d) ==
    \/ f.loadPath
    \/ f.read
    \/ /\ op = "UpdateHighScore"
       /\ g.Score > Stored(d).Score
       /\ (f.savePath \/ f.write # "ok")

\* C21: an absent file and a malformed file both make LoadHighScore return
\* the zero record with no error, whereas every I/O failure (the storage
\* location cannot be resolved, the file cannot be read, the file cannot be
\* written) is returned as an error by LoadHighScore, SaveHighScore and
\* UpdateHighScore; in main a load error still starts the game with the
\* zero record.
C21_ErrorPolicy ==
    /\ [](\A f \in Faults : \A s \in Sessions :
              SaveHighScore(disk, SessionRecord(s), f).err
                  <=> (f.savePath \/ f.write # "ok"))
    /\ [][/\ call'.op = "LoadHighScore" =>
               /\ StepFailed(call'.op, call'.faults, game', disk) => call'.err
               /\ (~StepFailed(call'.op, call'.faults, game', disk)
                      /\ disk \in {NoFile, Garbage})
                    => (~call'.err /\ call'.hs = ZeroHighScore)
               /\ call'.err => MainHighScore(call') = ZeroHighScore
          /\ call'.op = "UpdateHighScore" =>
               (StepFailed(call'.op, call'.faults, game', disk) => call'.err)
         ]_vars

(***************************************************************************)
(* Properties of the State machine                                         *)
(***************************************************************************)
StateTransitions ==
    { <<StateNormal, StateDropping>>, <<StateDropping, StateClearing>>,
      <<StateClearing, StateDropping>>, <<StateDropping, StateNormal>> }

\* C22: the only changes of State are Normal -> Dropping, Dropping ->
\* Clearing, Clearing -> Dropping and Dropping -> Normal: Clearing is
\* entered from Dropping only and every step taken in Clearing leads to
\* Dropping, Normal is never entered from Clearing, and the step that
\* leaves Normal is LockPair on the pair where it stands.
C22_StateTransitions ==
    /\ [](game.State \in {StateNormal, StateDropping, StateClearing})
    /\ [][/\ game'.State # game.State =>
               <<game.State, game'.State>> \in StateTransitions
          /\ (game.State = StateClearing /\ game' # game) =>
               game'.State = StateDropping
          /\ (game.State = StateNormal /\ game'.State # StateNormal) =>
               /\ game.Current # Nil
               /\ game' = LockPair(game)
               /\ game'.State = StateDropping]_vars

\* A second clear of one sequence has handed over to Dropping again.
C22_Witness ==
    /\ game.State = StateDropping
    /\ game.ChainCount = 2
    /\ game.TotalChains = 2
    /\ game.Current = Nil

\* The number of occupied cells of a board.
Occupied(f) == Cardinality({ p \in Cells : f[p.Y][p.X] # Empty })

\* C23: during chain resolution the number of occupied cells never grows,
\* a Dropping step (gravity) leaves it as it is, and every Clearing step
\* lowers it by 4 or more: on every board the resolver works on,
\* hasClearablePuyos true implies clearPuyos true, so a Clearing pass never
\* clears nothing and counts its chain.
C23_CellCount ==
    /\ [](game.State # StateNormal =>
              (hasClearablePuyos(game) => clearPuyos(game).ok))
    /\ [][game.State # StateNormal =>
              /\ Occupied(game'.Field) <= Occupied(game.Field)
              /\ game.State = StateDropping =>
                    Occupied(game'.Field) = Occupied(game.Field)
              /\ (game.State = StateClearing /\ game' # game) =>
                    /\ Occupied(game'.Field) + MinChain <= Occupied(game.Field)
                    /\ game'.TotalChains = game.TotalChains + 1]_vars

\* One Clearing step took two groups at once and left the board empty.
C23_Witness ==
    /\ game.State = StateDropping
    /\ game.ChainCount = 1
    /\ game.TotalChains = 1
    /\ Occupied(game.Field) = 0

(***************************************************************************)
(* Properties of the lock delay under the scheduler                        *)
(***************************************************************************)
\* C24: the lock counter runs only while the pair is grounded: in every
\* reachable state GroundFrames > 0 implies that the pair cannot move down
\* by 1; so a pair is locked only while grounded, never in mid-air, and
\* only when ShouldLock is true (of the state, or of the state with the
\* frame just counted).
C24_LockOnlyGrounded ==
    /\ [](game.GroundFrames > 0 =>
              (game.Current # Nil /\ ~CanMove(game, 0, 1, 0)))
    /\ [][(game.Current # Nil /\ game'.Current = Nil) =>
              /\ IsOnGround(game)
              /\ \/ ShouldLock(game)
                 \/ ShouldLock([game EXCEPT !.GroundFrames = @ + 1])
              /\ game' = LockPair(game)]_vars

\* A pair lying flat is one frame from its lock, held up by its sub puyo
\* alone: the cell below the main puyo is free.
C24_Witness ==
    /\ game.Current # Nil
    /\ game.GroundFrames = 31
    /\ game.Current.Rotate \in {1, 3}
    /\ IsValidPosition(game.Field, game.Current.Pos.X, game.Current.Pos.Y + 1)
    /\ IsOnGround(game)

\* C25: in every reachable state 0 <= GroundFrames <= MaxGroundFrames = 32;
\* the counter is 0 right after every lock and at every spawn (the spawn
\* after a chain sequence and the one of a restarted game).
C25_GroundFramesRange ==
    /\ [](/\ game.MaxGroundFrames = 32
          /\ 0 <= game.GroundFrames
          /\ game.GroundFrames <= game.MaxGroundFrames)
    /\ [][/\ (game.Current # Nil /\ game'.Current = Nil) =>
                game'.GroundFrames = 0
          /\ (game.Current = Nil /\ game'.Current # Nil) =>
                game'.GroundFrames = 0
          /\ (game.GameOver /\ game' # game) =>
                (game'.Current # Nil /\ game'.GroundFrames = 0)]_vars

\* A pair was locked after its full delay: the counter, at 31 one frame
\* before, is back at 0 with the pair on the board.
C25_Witness ==
    /\ game.State = StateDropping
    /\ game.Current = Nil
    /\ game.GroundFrames = 0
    /\ game.ChainCount = 0
    /\ locks = 1
    /\ Occupied(game.Field) = 2

\* C26: while Paused is true the scheduler hands nothing to the core: the
\* drop tick, the frame tick, the chain tick and the move, rotate and
\* soft-drop keys leave the game (board, pair, GroundFrames, State, Score,
\* GameOver) as it is; the one step with an effect is the pause toggle,
\* which clears Paused and changes nothing else.
C26_PausedDispatchesNothing ==
    /\ [](game.Paused =>
              /\ DropTickBody(game) = game
              /\ FrameTickBody(game) = game
              /\ ChainTickBody(game).g = game
              /\ \A dx \in {-1, 0, 1} : \A rot \in {-1, 0, 1} :
                    KeyMoveBody(game, dx, rot).g = game
              /\ KeyDownBody(game) = game
              /\ ~game.GameOver)
    /\ [][game.Paused =>
              \/ game' = game
              \/ game' = [game EXCEPT !.Paused = FALSE]]_vars

\* The game is paused one frame before the lock of a grounded pair.
C26_Witness ==
    /\ game.Paused
    /\ game.GroundFrames = 31
    /\ IsOnGround(game)
    /\ FrameTickBody([game EXCEPT !.Paused = FALSE]).State = StateDropping

(***************************************************************************)
(* Properties of the drop interval (SpecSpeed)                             *)
(***************************************************************************)
\* 500ms / (1 + 0.1 * L) in whole microseconds.
IntervalMicros(L) == 5000000 \div (10 + L)

\* The drop interval of a game that has reached level L, in microseconds.
SpeedAt(L) ==
    IF L = 1 THEN 500000
    ELSE IF L < 20 THEN IntervalMicros(L)
    ELSE 100000

\* C27: whenever the level rises to L, DropSpeed becomes 500ms/(1+0.1*L)
\* for L < 20 and the minimum 100ms for L >= 20; as a function of the
\* level reached (500ms at level 1) the interval is strictly decreasing
\* over levels 1..20 and constant from there on, so DropSpeed never grows
\* during a game and never falls below 100ms.
C27_DropInterval ==
    /\ [](/\ game.DropSpeed \div 1000 = SpeedAt(game.Level)
          /\ game.DropSpeed >= 100 * 1000000
          /\ \A L \in 1 .. 19 : SpeedAt(L + 1) < SpeedAt(L)
          /\ \A L \in 20 .. (MaxLines \div 10 + 3) : SpeedAt(L) = SpeedAt(20))
    /\ [][/\ game'.Level > game.Level =>
                /\ game'.Level < 20 =>
                      game'.DropSpeed \div 1000 = IntervalMicros(game'.Level)
                /\ game'.Level >= 20 => game'.DropSpeed = 100 * 1000000
                /\ game.Level < 20 => game'.DropSpeed < game.DropSpeed
          /\ game'.Level = game.Level => game'.DropSpeed = game.DropSpeed
          /\ game'.DropSpeed <= game.DropSpeed]_vars

\* A chain of eleven took the game from level 19 past level 20.
C27_Witness ==
    /\ game.Level = 21
    /\ game.LinesCleared = 200
    /\ game.DropSpeed = MinDropSpeed
    /\ game.Score % 1126400 = 189 * 100

(***************************************************************************)
(* Round trips of the pair                                                 *)
(***************************************************************************)
\* The pair is under the player's control.
InPlay(g) == g.State = StateNormal /\ ~g.GameOver /\ g.Current # Nil

\* C28: in every reachable Normal state of a game in play, if the rotate-cw
\* command Move(0,0,+1) is accepted, kicked or not, the rotate-ccw command
\* Move(0,0,-1) that follows at once is accepted and leaves Rotate at its
\* value before the two commands; and an accepted move by one column
\* followed by the move back restores the pair's position and rotation.
C28_RoundTrips ==
    InPlay(game) =>
        /\ LET cw == Move(game, 0, 0, 1)
               ccw == Move(cw.g, 0, 0, -1)
           IN cw.ok =>
                 /\ ccw.ok
                 /\ ccw.g.Current.Rotate = game.Current.Rotate
        /\ \A dx \in {-1, 1} :
              LET there == Move(game, dx, 0, 0)
                  back == Move(there.g, -dx, 0, 0)
              IN there.ok =>
                    /\ there.g.Current.Pos.X = game.Current.Pos.X + dx
                    /\ back.ok
                    /\ back.g.Current = game.Current

\* A clockwise rotation is accepted through a kick here, and the rotation
\* back leaves the pair in another place than it started from.
C28_Witness ==
    /\ InPlay(game)
    /\ Move(game, 0, 0, 1).ok
    /\ Move(game, 0, 0, 1).g.Current.Pos # game.Current.Pos
    /\ Move(Move(game, 0, 0, 1).g, 0, 0, -1).ok
    /\ Move(Move(game, 0, 0, 1).g, 0, 0, -1).g.Current.Pos # game.Current.Pos
    /\ Move(game, -1, 0, 0).ok

(***************************************************************************)
(* Between a lock and the next spawn                                       *)
(***************************************************************************)
\* C29: in every reachable state Current is nil exactly when State is not
\* Normal; so between a lock and the next spawn the drop tick, the frame
\* tick and the move, rotate and soft-drop keys change nothing, every step
\* that changes the game is a chain tick, and LockPair does not run a
\* second time for the pair it has locked.
C29_NoPairWhileResolving ==
    /\ [](game.Current = Nil <=> game.State # StateNormal)
    /\ [](game.State # StateNormal =>
              /\ DropTickBody(game) = game
              /\ FrameTickBody(game) = game
              /\ \A dx \in {-1, 0, 1} : \A rot \in {-1, 0, 1} :
                    KeyMoveBody(game, dx, rot).g = game
              /\ KeyDownBody(game) = game
              /\ LockPair(game) = game)
    /\ [][/\ game.State # StateNormal => game' = ProcessChainStep(game).g
          /\ (game.Current # Nil /\ game'.Current = Nil) =>
                /\ locks' = locks + 1
                /\ LockPair(game') = game']_vars

\* The first chain of a locked pair is about to be cleared; the next pair
\* waits in the preview.
C29_Witness ==
    /\ game.State = StateClearing
    /\ game.Current = Nil
    /\ game.Next # Nil
    /\ game.ChainCount = 1
    /\ game.TotalChains = 0
    /\ locks = 1

(***************************************************************************)
(* The settled board                                                       *)
(***************************************************************************)
\* Nothing is left to fall and nothing is left to clear.
Stable(f) == Compacted(f) /\ Doomed(f) = {}

\* C30: whenever State = Normal in a reachable state the board is stable:
\* every column is compacted and there is no 4-connected group of one
\* colour with 4 cells or more.  Stated on the first state and on every
\* step that enters Normal or ends in Normal with another board, which
\* are all the ways a Normal state gets its board.
C30_NormalBoardStable ==
    /\ game.State = StateNormal => Stable(game.Field)
    /\ [][(/\ game'.State = StateNormal
           /\ game.State # StateNormal \/ game'.Field # game.Field)
             => Stable(game'.Field)]_vars

\* A chain of three has settled and the next pair is falling over what is
\* left of the stacks.
C30_Witness ==
    /\ game.State = StateNormal
    /\ ~game.GameOver
    /\ game.TotalChains = 3
    /\ locks = 1
    /\ Occupied(game.Field) > 0
    /\ game.Current # Nil

(***************************************************************************)
(* Properties of LockPair under the scheduler                              *)
(***************************************************************************)
\* Position p is a cell of the grid.
OnGrid(p) == p.X \in Cols /\ p.Y \in Rows

\* C31: LockPair changes the board at the pair's main and sub positions
\* only: each of the two that lies on the grid gets its colour, one above
\* the screen (y < 0) is dropped, and the cell written was empty; the pair
\* is consumed (Current = nil), GroundFrames and the chain depth are set
\* to 0 and State to Dropping; Score, Level and the next pair stay.
C31_LockPairFrame ==
    [][(game.Current # Nil /\ game'.Current = Nil) =>
          LET cur == game.Current
              main == cur.Pos
              sub == GetSubPosition(cur)
          IN /\ main # sub
             /\ \A y \in Rows : \A x \in Cols :
                   game'.Field[y][x] =
                       IF Position(x, y) = main THEN cur.Main
                       ELSE IF Position(x, y) = sub THEN cur.Sub
                       ELSE game.Field[y][x]
             /\ OnGrid(main) => game.Field[main.Y][main.X] = Empty
             /\ OnGrid(sub) => game.Field[sub.Y][sub.X] = Empty
             /\ ~OnGrid(main) => main.Y < 0
             /\ ~OnGrid(sub) => sub.Y < 0
             /\ Occupied(game'.Field) = Occupied(game.Field)
                    + (IF OnGrid(main) THEN 1 ELSE 0)
                    + (IF OnGrid(sub) THEN 1 ELSE 0)
             /\ game'.GroundFrames = 0
             /\ game'.ChainCount = 0
             /\ game'.CurrentChainNum = 0
             /\ game'.State = StateDropping
             /\ game'.Score = game.Score
             /\ game'.Level = game.Level
             /\ game'.Next = game.Next
             /\ game' = [game EXCEPT !.Field = game'.Field,
                                    !.Current = Nil,
                                    !.GroundFrames = 0,
                                    !.State = StateDropping,
                                    !.ChainCount = 0,
                                    !.CurrentChainNum = 0]]_vars

\* A pair was locked where it spawned, on a column one cell short of full:
\* its main puyo is on the top row and its sub puyo, above the screen, is
\* gone.
C31_Witness ==
    /\ game.State = StateDropping
    /\ game.Current = Nil
    /\ game.ChainCount = 0
    /\ locks = 1
    /\ game.Field[0][FieldWidth \div 2] # Empty
    /\ Occupied(game.Field) = 13

(***************************************************************************)
(* The chain counters                                                      *)
(***************************************************************************)
\* C32: in every reachable state TotalChains = LinesCleared + ChainCount,
\* less 1 when State = Clearing (the chain found but not yet cleared); so
\* whenever State = Normal, ChainCount = 0 and TotalChains = LinesCleared.
C32_ChainCounters ==
    /\ game.TotalChains = game.LinesCleared + game.ChainCount
                             - (IF game.State = StateClearing THEN 1 ELSE 0)
    /\ game.State = StateNormal =>
          (game.ChainCount = 0 /\ game.TotalChains = game.LinesCleared)
    /\ game.State = StateClearing => game.ChainCount >= 1

\* The third chain of a sequence has been found and not yet cleared.
C32_Witness ==
    /\ game.State = StateClearing
    /\ game.ChainCount = 3
    /\ game.TotalChains = 2
    /\ game.LinesCleared = 0

(***************************************************************************)
(* Liveness of the lock (TickFairSpec)                                     *)
(***************************************************************************)
\* A step in which a move to the side or a rotation was accepted.
Steered ==
    /\ game.Current # Nil /\ game'.Current # Nil
    /\ ~game.GameOver
    /\ \/ game'.Current.Pos.X # game.Current.Pos.X
       \/ game'.Current.Rotate # game.Current.Rotate

\* A pair is falling in a game that is not over (and the model has not
\* reached its bound on locks).
Falling == game.State = StateNormal /\ ~game.GameOver /\ locks < MaxLocks

\* C33: with the drop ticker and the frame ticker firing, in a game that
\* is not over, if from some point on the game is not paused and no move
\* to the side and no rotation is accepted, the falling pair is eventually
\* locked: the game does not stay in Normal with that pair for ever, and
\* the only step out of it is the lock (State becomes Dropping, the pair
\* is gone).  With the chain ticker firing every lock is eventually
\* followed by a spawn, which may end the game: the game is in Normal
\* with a pair again and again.
C33_EventuallyLocked ==
    /\ (<>[][~Steered]_vars /\ <>[]~game.Paused) => []<>~Falling
    /\ [][Falling /\ ~Falling' =>
            /\ game'.State = StateDropping
            /\ game'.Current = Nil
            /\ locks' = locks + 1]_vars
    /\ []<>(game.State = StateNormal /\ game.Current # Nil)

\* A pair went all the way down the empty field, waited out its lock
\* delay and was locked; nothing cleared, and the next pair has spawned.
C33_Witness ==
    /\ game.State = StateNormal
    /\ ~game.GameOver
    /\ locks = 1
    /\ game.TotalChains = 0
    /\ game.Current # Nil
    /\ game.Current.Pos = Position(FieldWidth \div 2, 0)
    /\ Occupied(game.Field) = 2

=============================================================================
